---- MODULE Spec2Model ----
(***************************************************************************)
(* Cross Timezone Meeting Planner: the App component's state, its holiday  *)
(* fetch effect and cache, the date predicates of the calendar filter and  *)
(* the common-awake-hours computation.                                     *)
(*                                                                         *)
(* A JavaScript Date is modelled by its wall-clock reading in the          *)
(* browser's own timezone, in minutes since 2024-01-01 00:00 local time;   *)
(* the instant it denotes is that reading minus browserOffset.  A          *)
(* 'YYYY-MM-DD' string is modelled by the number of the calendar day it    *)
(* names (day 0 = 2024-01-01, a Monday).  Timezones have fixed offsets.    *)
(***************************************************************************)
EXTENDS Integers, Sequences, FiniteSets, TLC

VARIABLES
    selectedParticipants,  \* useState([]): sequence of participants
    currentStep,           \* useState(0)
    filterType,            \* useState('workday')
    holidaysByCountry,     \* useState({}): code -> sequence of holiday records
    loadingHolidays,       \* useState(false)
    calendarTz,            \* useState('UTC')
    calendarRange,         \* useState({start: null, end: null}), after the mount effect
    holidaysCache,         \* useRef({}): <<code, year>> -> Undefined or Some(list)
    lastFetchKey,          \* useRef('')
    selectedDate,          \* useState(null)
    awakeStart,            \* useState(8)
    awakeEnd,              \* useState(22)
    browserOffset,         \* the browser's UTC offset in minutes (environment)
    inflight,              \* fetch promises not yet settled: [code, year, cycle]
    cycles,                \* pending Promise.all joins: cycle id -> [codes, years]
    nextCycle,             \* id of the next effect run that issues fetches
    effectRun,             \* what the last run of the fetch effect read: key, lastFetchKey
    justPublished,         \* the cycle whose Promise.all callback ran in the last step
    failedFetches,         \* the fetch tasks that have failed so far
    filtered,              \* the filteredDates array of the last render computed
    hours,                 \* result of the last getCommonAwakeHours call
    pc,                    \* position of the function-level specifications
    showTimeFilter,        \* useState(false)
    selectedHour,          \* useState(null)
    showResult,            \* useState(false)
    yearsInRange,          \* result of the last getYearsInRange call
    events,                \* the events array of the last render computed
    local                  \* the local times the result page shows, per participant

vars == <<selectedParticipants, currentStep, filterType, holidaysByCountry,
          loadingHolidays, calendarTz, calendarRange, holidaysCache, lastFetchKey,
          selectedDate, awakeStart, awakeEnd, browserOffset, inflight, cycles,
          nextCycle, effectRun, justPublished, failedFetches, filtered, hours, pc,
          showTimeFilter, selectedHour, showResult, yearsInRange, events, local>>

-----------------------------------------------------------------------------
(* Bounds *)

\* at most this many effect runs issue fetches in one behaviour
MaxCycles == 2

-----------------------------------------------------------------------------
(* Dates and timezones *)

MinutesPerDay == 24 * 60

\* calendarRange.start / selectedDate before they are set
NullDate == -1

\* selectedHour before an hour is chosen
NullHour == -1

\* local midnight of calendar day n in the browser's timezone
Midnight(n) == n * MinutesPerDay

\* Date.prototype.getFullYear, moment().year(): the year of a calendar day
YearOfDay(n) ==
    IF n < 0 THEN 2023
    ELSE IF n < 366 THEN 2024
    ELSE IF n < 366 + 365 THEN 2025
    ELSE 2026

\* Date.prototype.getDay of a Date: 0 = Sunday ... 6 = Saturday
getDay(date) == ((date \div MinutesPerDay) + 1) % 7

\* moment(date).format('YYYY-MM-DD'): the calendar day in the browser's timezone
formatLocalDate(date) == date \div MinutesPerDay

\* date.toISOString().slice(0, 10): the calendar day in UTC
toISODate(date) == (date - browserOffset) \div MinutesPerDay

\* UTC offsets in minutes of the IANA zones used
utcOffset(zone) ==
    CASE zone = "UTC" -> 0
      [] zone = "America/New_York" -> 0 - 300
      [] zone = "Asia/Tokyo" -> 540
      [] zone = "Asia/Kolkata" -> 330
      [] zone = "America/Adak" -> 0 - 600
      [] zone = "Etc/GMT+5" -> 0 - 300
      [] zone = "Etc/GMT-9" -> 540
      [] OTHER -> 0

Zones == {"UTC", "America/New_York", "Asia/Tokyo", "Asia/Kolkata"}

\* p.timezone.split(' ')[0]: the zone name without the advisory suffix
tzName(timezone) == timezone[1]

-----------------------------------------------------------------------------
(* Participants, as MapLocationPicker's handleClick builds them *)

PUS == [id |-> 1, iso2 |-> "US", timezone |-> <<"America/New_York">>]
PJP == [id |-> 2, iso2 |-> "JP", timezone |-> <<"Asia/Tokyo">>]
\* a click on open sea: no country, timezone not detected
PSea == [id |-> 3, iso2 |-> "",
         timezone |-> <<"UTC", "(Timezone", "could", "not", "be", "detected,", "using", "UTC)">>]
PIN == [id |-> 4, iso2 |-> "IN", timezone |-> <<"Asia/Kolkata">>]

\* the places clicked on the map in the App specification
Participants == {PUS, PJP}

RECURSIVE uniq(_, _)
\* Array.from(new Set(xs)): first occurrences, in order
uniq(xs, seen) ==
    IF xs = <<>> THEN <<>>
    ELSE IF Head(xs) \in seen THEN uniq(Tail(xs), seen)
    ELSE <<Head(xs)>> \o uniq(Tail(xs), seen \cup {Head(xs)})

\* xs.filter(Boolean) on strings: drops the empty string
filterBoolean(xs) == SelectSeq(xs, LAMBDA x : x # "")

Range(xs) == {xs[i] : i \in DOMAIN xs}

countryCodes(participants) ==
    uniq(filterBoolean([i \in DOMAIN participants |-> participants[i].iso2]), {})

timezones(participants) ==
    uniq(filterBoolean([i \in DOMAIN participants |-> tzName(participants[i].timezone)]), {})

-----------------------------------------------------------------------------
(* Date ranges *)

RECURSIVE walkDays(_, _)
\* let d = new Date(start); while (d <= end) { push(d); d.setDate(d.getDate() + 1) }
walkDays(d, end) ==
    IF d <= end THEN <<d>> \o walkDays(d + MinutesPerDay, end) ELSE <<>>

allDates(range) ==
    IF range.start # NullDate /\ range.end # NullDate
    THEN walkDays(range.start, range.end)
    ELSE <<>>

\* the Set of years, in insertion order
getYearsInRange(start, end) ==
    IF start = NullDate \/ end = NullDate THEN <<>>
    ELSE LET ds == walkDays(start, end)
         IN uniq([i \in DOMAIN ds |-> YearOfDay(ds[i] \div MinutesPerDay)], {})

\* the month of "today" at mount: new Date(year, month, 1) .. new Date(year, month + 1, 0)
December2024 == [start |-> Midnight(335), end |-> Midnight(365)]

\* the week view 29 December 2024 .. 4 January 2025
NewYearWeek == [start |-> Midnight(363), end |-> Midnight(369)]

\* the ranges react-big-calendar reports to onRangeChange
CalendarRanges == {December2024, NewYearWeek}

-----------------------------------------------------------------------------
(* The holiday service (date.nager.at) and the cache *)

Codes == {"US", "JP"}
Years == {2024, 2025}
Slots == Codes \X Years

\* what the service answers for /PublicHolidays/{year}/{code} when it succeeds:
\* records with a date (calendar day) and a type
ApiData(code, year) ==
    CASE code = "US" /\ year = 2024 ->
             << [date |-> 359, type |-> "Public"], [date |-> 365, type |-> "Optional"] >>
      [] code = "JP" /\ year = 2024 ->
             << [date |-> 365, type |-> "Bank"] >>
      [] code = "US" /\ year = 2025 ->
             << [date |-> 366, type |-> "Public"] >>
      [] code = "JP" /\ year = 2025 ->
             << [date |-> 366, type |-> "Public"], [date |-> 367, type |-> "Public"] >>
      [] OTHER -> <<>>

\* how a fetch settles: res.ok, !res.ok, or a rejected promise
Outcomes == {"ok", "http_error", "network_error"}

\* the requests the service may fail in the App specification
Unreliable == {<<"US", 2024>>}

\* a slot of holidaysCache.current[code][year] that was never written
Undefined == <<>>
Some(list) == <<list>>

\* a truthiness under which the empty array counts as falsy
truthyNonEmpty(slot) == slot # Undefined /\ slot[1] # <<>>

\* JavaScript truthiness of a cache slot: undefined is falsy, every array is truthy
Truthy(slot) == slot # Undefined

\* countryCodes.join(',') + '|' + years.join(',')
fetchKey(codes, years) == <<codes, years>>

\* lastFetchKey.current before the first fetch: ''
NoKey == <<>>

\* the effect without its key guard
keyGuardRemoved(last, key) == FALSE

\* lastFetchKey.current === fetchKey
keyUnchanged(last, key) == last = key

\* the (code, year) pairs the effect pushes a fetch task for
pairsToFetch(codes, years, cache) ==
    {s \in Range(codes) \X Range(years) : ~Truthy(cache[s])}

RECURSIVE concatYears(_, _, _)
\* years.forEach(year => { if (cache[code][year]) list = list.concat(cache[code][year]) })
concatYears(code, years, cache) ==
    IF years = <<>> THEN <<>>
    ELSE (IF Truthy(cache[<<code, Head(years)>>]) THEN cache[<<code, Head(years)>>][1] ELSE <<>>)
         \o concatYears(code, Tail(years), cache)

\* the byCountry object built in the Promise.all callback
byCountry(codes, years, cache) ==
    [code \in Range(codes) |-> concatYears(code, years, cache)]

\* a join that resolves with the first task to settle (Promise.race)
firstSettled(cycle, pending) == TRUE

\* Promise.all(fetchTasks): resolved when no task of the cycle is pending
allSettled(cycle, pending) == ~\E t \in pending : t.cycle = cycle

\* effectRun: whether the last step ran the fetch effect up to its key comparison,
\* and whether the key it computed was the one in lastFetchKey.current
NoRun == "none"
RanWith(key, last) == IF key = last THEN "same key" ELSE "new key"
NoCycle == [published |-> FALSE, cycle |-> 0, codes |-> <<>>, years |-> <<>>]

fetchVars == <<holidaysByCountry, loadingHolidays, holidaysCache, lastFetchKey,
               inflight, cycles, nextCycle>>

\* the "Fetch holidays" effect, run with the state of the render it follows
FetchHolidaysEffect(participants, range) ==
    LET codes == countryCodes(participants)
        years == getYearsInRange(range.start, range.end)
        key == fetchKey(codes, years)
        tasks == {[code |-> s[1], year |-> s[2], cycle |-> nextCycle] :
                     s \in pairsToFetch(codes, years, holidaysCache)}
    IN IF range.start = NullDate \/ range.end = NullDate \/ Len(codes) = 0
       THEN /\ effectRun' = NoRun
            /\ justPublished' = NoCycle
            /\ UNCHANGED fetchVars
       ELSE /\ effectRun' = RanWith(key, lastFetchKey)
            /\ IF keyUnchanged(lastFetchKey, key)
               THEN /\ justPublished' = NoCycle
                    /\ UNCHANGED fetchVars
               ELSE /\ lastFetchKey' = key
                    /\ holidaysCache' = holidaysCache
                    /\ IF tasks = {}
                       THEN \* Promise.all([]) resolves at once
                            /\ holidaysByCountry' = byCountry(codes, years, holidaysCache)
                            /\ loadingHolidays' = FALSE
                            /\ justPublished' = [published |-> TRUE, cycle |-> 0,
                                                 codes |-> codes, years |-> years]
                            /\ UNCHANGED <<inflight, cycles, nextCycle>>
                       ELSE /\ nextCycle <= MaxCycles
                            /\ loadingHolidays' = TRUE
                            /\ inflight' = inflight \cup tasks
                            /\ cycles' = cycles \cup
                                   {[id |-> nextCycle, codes |-> codes, years |-> years]}
                            /\ nextCycle' = nextCycle + 1
                            /\ justPublished' = NoCycle
                            /\ UNCHANGED holidaysByCountry

\* the effect's dependency array: [calendarRange.start, calendarRange.end, countryCodes.join(',')]
\* range dates are fresh objects after every setCalendarRange
FetchHolidaysEffectOnDeps(oldParticipants, participants, range, rangeSet) ==
    IF rangeSet \/ countryCodes(oldParticipants) # countryCodes(participants)
    THEN FetchHolidaysEffect(participants, range)
    ELSE /\ effectRun' = NoRun
         /\ justPublished' = NoCycle
         /\ UNCHANGED fetchVars

\* the "default timezone" effect, run after every render
defaultTz(participants, tz) ==
    LET tzs == timezones(participants)
    IN IF Len(tzs) > 0 /\ tz \notin Range(tzs) THEN tzs[1] ELSE tz

-----------------------------------------------------------------------------
(* The date predicates of the calendar filter, evaluated in a render *)

isWeekend(date) == getDay(date) = 0 \/ getDay(date) = 6

\* (holidaysByCountry[code] || [])
holidaysOf(code) ==
    IF code \in DOMAIN holidaysByCountry THEN holidaysByCountry[code] ELSE <<>>

\* list.some(h => h.date === dstr)
someOn(list, dstr) == \E i \in DOMAIN list : list[i].date = dstr

isHoliday(date) ==
    LET dstr == toISODate(date)
    IN \A code \in Range(countryCodes(selectedParticipants)) :
           someOn(holidaysOf(code), dstr)

\* a workday as "neither weekend nor holiday in every country"
isWorkdayUnlessGroupHoliday(date) == ~isWeekend(date) /\ ~isHoliday(date)

isWorkday(date) ==
    \A code \in Range(countryCodes(selectedParticipants)) :
        LET dstr == toISODate(date)
            isHol == someOn(holidaysOf(code), dstr)
        IN ~isHol /\ ~isWeekend(date)

filteredDates ==
    SelectSeq(allDates(calendarRange),
              LAMBDA d : IF filterType = "workday" THEN isWorkday(d)
                         ELSE IF filterType = "weekend" THEN isWeekend(d)
                         ELSE IF filterType = "holiday" THEN isHoliday(d)
                         ELSE FALSE)

\* the test of the highlight event pushed for a date of filteredDates
isAllPublicHoliday(d) ==
    /\ filterType = "holiday"
    /\ \A code \in Range(countryCodes(selectedParticipants)) :
           LET dstr == formatLocalDate(d)
           IN \E i \in DOMAIN holidaysOf(code) :
                  holidaysOf(code)[i].date = dstr /\ holidaysOf(code)[i].type = "Public"

\* ct.getCountry(code).timezones[0], or 'UTC' when the country is unknown
getTimezoneByCountryCode(countryCode) ==
    CASE countryCode = "US" -> "America/Adak"
      [] countryCode = "JP" -> "Asia/Tokyo"
      [] countryCode = "IN" -> "Asia/Kolkata"
      [] OTHER -> "UTC"

\* moment.toDate(): the Date of a UTC instant, as its reading in the browser's timezone
toDate(instant) == instant + browserOffset

\* moment.tz(h.date, 'YYYY-MM-DD', zone): the instant of local midnight of the day in zone
localStart(day, zone) == Midnight(day) - utcOffset(zone)

\* end > calendarRange.start && start < calendarRange.end
inView(start, end) ==
    /\ calendarRange.start # NullDate
    /\ calendarRange.end # NullDate
    /\ end > calendarRange.start
    /\ start < calendarRange.end

\* the event pushed for holiday record h of country code
holidayEvent(code, h) ==
    LET start == toDate(localStart(h.date, getTimezoneByCountryCode(code)))
    IN [code |-> code, date |-> h.date, start |-> start, end |-> start + MinutesPerDay,
        type |-> IF h.type = "Public" THEN "countryHoliday" ELSE "otherHoliday"]

\* 1. the holidays of each country
countryEvents ==
    UNION {{holidayEvent(code, holidaysOf(code)[i]) :
               i \in {j \in DOMAIN holidaysOf(code) :
                         LET e == holidayEvent(code, holidaysOf(code)[j])
                         IN inView(e.start, e.end)}} :
           code \in Range(countryCodes(selectedParticipants))}

\* 2. the highlight of the filtered dates
filterEvents ==
    {[code |-> "All", date |-> formatLocalDate(d), start |-> d, end |-> d, type |-> "filter"] :
        d \in {x \in Range(filteredDates) :
                  \/ filterType = "holiday" /\ isAllPublicHoliday(x)
                  \/ filterType = "weekend" /\ isWeekend(x)
                  \/ filterType = "workday" /\ isWorkday(x)}}

\* the events array handed to the calendar
renderEvents == countryEvents \cup filterEvents

-----------------------------------------------------------------------------
(* The common awake hours *)

\* moment(date).tz(tz).hour(h).minute(0).second(0), as a UTC instant in minutes
hourInZone(date, tz, h) ==
    LET instant == date - browserOffset
        wall == instant + utcOffset(tz)
        day == wall \div MinutesPerDay
    IN day * MinutesPerDay + h * 60 - utcOffset(tz)

\* dt.clone().tz(zone).hour()
localHour(instant, zone) == ((instant + utcOffset(zone)) % MinutesPerDay) \div 60

\* the window with its end hour included
allAwakeEndInclusive(dt) ==
    \A i \in DOMAIN selectedParticipants :
        LET hour == localHour(dt, tzName(selectedParticipants[i].timezone))
        IN hour >= awakeStart /\ hour <= awakeEnd

\* selectedParticipants.every(p => hour >= awakeStart && hour < awakeEnd)
allAwake(dt) ==
    \A i \in DOMAIN selectedParticipants :
        LET hour == localHour(dt, tzName(selectedParticipants[i].timezone))
        IN hour >= awakeStart /\ hour < awakeEnd

RECURSIVE awakeLoop(_, _, _)
\* for (let h = 0; h < 24; h++) { ... if (allAwake) hours.push(h) }
awakeLoop(h, date, tz) ==
    IF h < 24
    THEN (IF allAwake(hourInZone(date, tz, h)) THEN <<h>> ELSE <<>>)
         \o awakeLoop(h + 1, date, tz)
    ELSE <<>>

getCommonAwakeHours(date, tz) == awakeLoop(0, date, tz)

-----------------------------------------------------------------------------
(* The App: state after mount, and its handlers *)

modalVars == <<showTimeFilter, selectedHour, showResult>>
outVars == <<yearsInRange, events, local>>
uiVars == <<currentStep, filterType, selectedDate, awakeStart, awakeEnd>>
envVars == <<browserOffset, filtered, hours, pc, outVars>>

\* the time filter modal and the result page as constructed
ModalClosed ==
    /\ showTimeFilter = FALSE
    /\ selectedHour = NullHour
    /\ showResult = FALSE

\* nothing computed yet
NoOutput ==
    /\ yearsInRange = <<>>
    /\ events = {}
    /\ local = <<>>

BrowserOffsets == {0 - 300, 0, 540}

Init ==
    /\ selectedParticipants = <<>>
    /\ currentStep = 0
    /\ filterType = "workday"
    /\ holidaysByCountry = <<>>
    /\ loadingHolidays = FALSE
    /\ calendarTz = "UTC"
    /\ calendarRange = December2024
    /\ holidaysCache = [s \in Slots |-> Undefined]
    /\ lastFetchKey = NoKey
    /\ selectedDate = NullDate
    /\ awakeStart = 8
    /\ awakeEnd = 22
    /\ browserOffset = 0
    /\ inflight = {}
    /\ cycles = {}
    /\ nextCycle = 1
    /\ effectRun = NoRun
    /\ justPublished = NoCycle
    /\ failedFetches = {}
    /\ filtered = <<>>
    /\ hours = <<>>
    /\ pc = "app"
    /\ ModalClosed
    /\ NoOutput

\* the time filter modal is rendered: showTimeFilter && selectedDate
modalOpen == showTimeFilter /\ selectedDate # NullDate

\* the result page is rendered: showResult && selectedDate && selectedHour !== null
resultOpen == showResult /\ selectedDate # NullDate /\ selectedHour # NullHour

\* both are fixed full-screen layers above the header, the page and the step
\* buttons, which cannot be clicked while one of them is rendered
overlayOpen == modalOpen \/ resultOpen

\* a render caused by a change of selectedParticipants, and the effects after it
SetSelectedParticipants(participants) ==
    /\ selectedParticipants' = participants
    /\ calendarTz' = defaultTz(participants, calendarTz)
    /\ FetchHolidaysEffectOnDeps(selectedParticipants, participants, calendarRange, FALSE)
    /\ UNCHANGED <<calendarRange, failedFetches, uiVars, modalVars, envVars>>

\* selectedParticipants.some(p => p.id === id)
hasId(participants, id) == \E i \in DOMAIN participants : participants[i].id = id

\* an add that appends whatever the ids already present
appendAlways(participants, participant) == Append(participants, participant)

\* the array handleAddParticipant leaves in selectedParticipants
withParticipant(participants, participant) ==
    IF ~hasId(participants, participant.id)
    THEN Append(participants, participant)
    ELSE participants

\* a removal that drops the last participant when the id is not there
withoutIdOrLast(participants, id) ==
    IF hasId(participants, id) THEN SelectSeq(participants, LAMBDA p : p.id # id)
    ELSE SubSeq(participants, 1, Len(participants) - 1)

\* selectedParticipants.filter(p => p.id !== id)
withoutParticipant(participants, id) == SelectSeq(participants, LAMBDA p : p.id # id)

\* a click on the map (step 0): MapLocationPicker calls onAddParticipant
handleAddParticipant(participant) ==
    /\ pc = "app"
    /\ currentStep = 0
    /\ ~overlayOpen
    /\ SetSelectedParticipants(withParticipant(selectedParticipants, participant))

\* the "x" next to a participant in the panel of step 0
handleRemoveParticipant(id) ==
    /\ pc = "app"
    /\ currentStep = 0
    /\ ~overlayOpen
    /\ hasId(selectedParticipants, id)
    /\ SetSelectedParticipants(withoutParticipant(selectedParticipants, id))

\* the header's Reset button, shown at every step
HeaderReset ==
    /\ pc = "app"
    /\ ~overlayOpen
    /\ SetSelectedParticipants(<<>>)

\* an action that leaves the fetch effect's dependencies alone
NoFetchEffect ==
    /\ effectRun' = NoRun
    /\ justPublished' = NoCycle
    /\ UNCHANGED <<fetchVars, failedFetches>>

NextStep ==
    /\ pc = "app"
    /\ ~overlayOpen
    /\ currentStep < 1
    /\ ~(currentStep = 0 /\ Len(selectedParticipants) = 0)
    /\ currentStep' = currentStep + 1
    /\ NoFetchEffect
    /\ UNCHANGED <<selectedParticipants, calendarTz, calendarRange, filterType,
                   selectedDate, awakeStart, awakeEnd, modalVars, envVars>>

PreviousStep ==
    /\ pc = "app"
    /\ ~overlayOpen
    /\ currentStep > 0
    /\ currentStep' = currentStep - 1
    /\ NoFetchEffect
    /\ UNCHANGED <<selectedParticipants, calendarTz, calendarRange, filterType,
                   selectedDate, awakeStart, awakeEnd, modalVars, envVars>>

\* the calendar of step 1 reports a new visible range
handleRangeChange(range) ==
    /\ pc = "app"
    /\ currentStep = 1
    /\ ~overlayOpen
    /\ calendarRange' = range
    /\ calendarTz' = defaultTz(selectedParticipants, calendarTz)
    /\ FetchHolidaysEffectOnDeps(selectedParticipants, selectedParticipants, range, TRUE)
    /\ UNCHANGED <<selectedParticipants, failedFetches, uiVars, modalVars, envVars>>

\* one fetch task settles; the Promise.all callback of its cycle runs when it was the last
FetchSettle(t, outcome) ==
    /\ pc = "app"
    /\ t \in inflight
    /\ outcome = "ok" \/ <<t.code, t.year>> \in Unreliable
    /\ LET data == IF outcome = "ok" THEN ApiData(t.code, t.year) ELSE <<>>
           cache == [holidaysCache EXCEPT ![<<t.code, t.year>>] = Some(data)]
           pending == inflight \ {t}
           cyc == CHOOSE c \in cycles : c.id = t.cycle
       IN /\ holidaysCache' = cache
          /\ inflight' = pending
          /\ IF allSettled(t.cycle, pending)
             THEN /\ holidaysByCountry' = byCountry(cyc.codes, cyc.years, cache)
                  /\ loadingHolidays' = FALSE
                  /\ justPublished' = [published |-> TRUE, cycle |-> t.cycle,
                                       codes |-> cyc.codes, years |-> cyc.years]
             ELSE /\ justPublished' = NoCycle
                  /\ UNCHANGED <<holidaysByCountry, loadingHolidays>>
          /\ cycles' = IF \E u \in pending : u.cycle = t.cycle THEN cycles ELSE cycles \ {cyc}
          /\ failedFetches' = IF outcome = "ok" THEN failedFetches
                              ELSE failedFetches \cup {t}
    /\ effectRun' = NoRun
    /\ UNCHANGED <<selectedParticipants, calendarTz, calendarRange, lastFetchKey,
                   nextCycle, uiVars, modalVars, envVars>>

\* the network settles one of the pending fetches
SettleFetch == \E t \in inflight, o \in Outcomes : FetchSettle(t, o)

Next ==
    \/ \E p \in Participants : handleAddParticipant(p)
    \/ \E p \in Participants : handleRemoveParticipant(p.id)
    \/ HeaderReset
    \/ NextStep
    \/ PreviousStep
    \/ \E r \in CalendarRanges : handleRangeChange(r)
    \/ SettleFetch

Spec == Init /\ [][Next]_vars

-----------------------------------------------------------------------------
(* The wizard with its time filter modal and result page, for participants      *)
(* placed at sea: they have a timezone and no country code, so the fetch       *)
(* effect returns at its first guard                                           *)

PAtlantic == [id |-> 5, iso2 |-> "", timezone |-> <<"Etc/GMT+5">>]
PPacific == [id |-> 6, iso2 |-> "", timezone |-> <<"Etc/GMT-9">>]
WizardParticipants == {PAtlantic, PPacific}

\* the days clicked in the calendar: 30 and 31 December 2024
WizardDates == {Midnight(364), Midnight(365)}

\* the values typed into the awake range inputs
WizardStarts == {8, 12}
WizardEnds == {18, 22}

\* what the modal's and the result page's handlers leave alone
wizardFrame == <<selectedParticipants, calendarRange, filterType, envVars>>

\* onSelectSlot for a single day, onDrillDown
handleSelectSlot(date) ==
    /\ pc = "app"
    /\ currentStep = 1
    /\ ~overlayOpen
    /\ selectedDate' = date
    /\ showTimeFilter' = TRUE
    /\ NoFetchEffect
    /\ UNCHANGED <<wizardFrame, currentStep, calendarTz, awakeStart, awakeEnd,
                   selectedHour, showResult>>

\* the modal's close button
CloseTimeFilter ==
    /\ pc = "app"
    /\ modalOpen
    /\ showTimeFilter' = FALSE
    /\ NoFetchEffect
    /\ UNCHANGED <<wizardFrame, currentStep, calendarTz, selectedDate, awakeStart,
                   awakeEnd, selectedHour, showResult>>

\* the timezone select of step 1 and of the modal: onChange, then the default
\* timezone effect of the render
setCalendarTz(tz) ==
    /\ pc = "app"
    /\ modalOpen \/ (currentStep = 1 /\ ~overlayOpen)
    /\ tz \in Range(timezones(selectedParticipants)) \cup {"UTC"}
    /\ calendarTz' = defaultTz(selectedParticipants, tz)
    /\ NoFetchEffect
    /\ UNCHANGED <<wizardFrame, currentStep, selectedDate, awakeStart, awakeEnd,
                   modalVars>>

setAwakeStart(value) ==
    /\ pc = "app"
    /\ modalOpen
    /\ awakeStart' = value
    /\ NoFetchEffect
    /\ UNCHANGED <<wizardFrame, currentStep, calendarTz, selectedDate, awakeEnd,
                   modalVars>>

setAwakeEnd(value) ==
    /\ pc = "app"
    /\ modalOpen
    /\ awakeEnd' = value
    /\ NoFetchEffect
    /\ UNCHANGED <<wizardFrame, currentStep, calendarTz, selectedDate, awakeStart,
                   modalVars>>

\* a click on segment h of the progress bar: onClick={() => allAwake && setSelectedHour(h)}
ClickProgressBar(h) ==
    /\ pc = "app"
    /\ modalOpen
    /\ Len(selectedParticipants) > 0
    /\ allAwake(hourInZone(selectedDate, calendarTz, h))
    /\ selectedHour' = h
    /\ NoFetchEffect
    /\ UNCHANGED <<wizardFrame, currentStep, calendarTz, selectedDate, awakeStart,
                   awakeEnd, showTimeFilter, showResult>>

\* a click on one of the hours listed from getCommonAwakeHours
ClickHourChip(h) ==
    /\ pc = "app"
    /\ modalOpen
    /\ h \in Range(getCommonAwakeHours(selectedDate, calendarTz))
    /\ selectedHour' = h
    /\ NoFetchEffect
    /\ UNCHANGED <<wizardFrame, currentStep, calendarTz, selectedDate, awakeStart,
                   awakeEnd, showTimeFilter, showResult>>

\* the Confirm button, disabled while selectedHour === null
Confirm ==
    /\ pc = "app"
    /\ modalOpen
    /\ selectedHour # NullHour
    /\ showTimeFilter' = FALSE
    /\ showResult' = TRUE
    /\ NoFetchEffect
    /\ UNCHANGED <<wizardFrame, currentStep, calendarTz, selectedDate, awakeStart,
                   awakeEnd, selectedHour>>

\* the result page's close and Reset buttons
CloseResult ==
    /\ pc = "app"
    /\ resultOpen
    /\ showResult' = FALSE
    /\ selectedHour' = NullHour
    /\ selectedDate' = NullDate
    /\ showTimeFilter' = FALSE
    /\ currentStep' = 0
    /\ NoFetchEffect
    /\ UNCHANGED <<wizardFrame, calendarTz, awakeStart, awakeEnd>>

PlaceParticipant == \E p \in WizardParticipants : handleAddParticipant(p)
RemoveParticipant == \E p \in WizardParticipants : handleRemoveParticipant(p.id)
SelectSlot == \E d \in WizardDates : handleSelectSlot(d)
SelectTimezone == \E tz \in Zones \cup {"Etc/GMT+5", "Etc/GMT-9"} : setCalendarTz(tz)
EditAwakeStart == \E v \in WizardStarts : setAwakeStart(v)
EditAwakeEnd == \E v \in WizardEnds : setAwakeEnd(v)
SelectHourOnBar == \E h \in 0..23 : ClickProgressBar(h)
SelectHourChip == \E h \in 0..23 : ClickHourChip(h)

NextWizard ==
    \/ PlaceParticipant
    \/ RemoveParticipant
    \/ HeaderReset
    \/ NextStep
    \/ PreviousStep
    \/ SelectSlot
    \/ CloseTimeFilter
    \/ SelectTimezone
    \/ EditAwakeStart
    \/ EditAwakeEnd
    \/ SelectHourOnBar
    \/ SelectHourChip
    \/ Confirm
    \/ CloseResult

SpecWizard == Init /\ [][NextWizard]_vars

\* C17: whenever the result page is shown, the selected hour is one of the
\* common awake hours of the current date, display timezone, awake window and
\* participants.
C17_ResultHourIsCommonAwakeHour ==
    resultOpen => selectedHour \in Range(getCommonAwakeHours(selectedDate, calendarTz))

\* C18: on the calendar step, and while the time filter modal or the result
\* page is open, at least one participant is selected.
C18_SomebodySelected ==
    (currentStep = 1 \/ modalOpen \/ resultOpen) => Len(selectedParticipants) > 0

-----------------------------------------------------------------------------
(* The filter of a render, over the states a settled fetch cycle leaves *)

\* sequences of distinct elements of S, of length at most n
RECURSIVE listsOf(_, _)
listsOf(S, n) ==
    IF n = 0 THEN {<<>>}
    ELSE LET shorter == listsOf(S, n - 1)
         IN shorter \cup UNION {{Append(l, x) : x \in S \ Range(l)} : l \in shorter}

FilterParticipants == {PUS, PJP, PSea}

\* the cache after the fetches of the pairs in wanted have settled, those in
\* failed without success
settledCache(wanted, failed) ==
    [s \in Slots |-> IF s \notin wanted THEN Undefined
                     ELSE IF s \in failed THEN Some(<<>>)
                     ELSE Some(ApiData(s[1], s[2]))]

\* a render of step 1 once the cycle of the current key has settled; with no
\* country code no fetch was ever issued
InitDates ==
    /\ selectedParticipants \in listsOf(FilterParticipants, 3)
    /\ currentStep = 1
    /\ filterType \in {"workday", "weekend", "holiday"}
    /\ calendarRange \in CalendarRanges
    /\ LET codes == countryCodes(selectedParticipants)
           years == getYearsInRange(calendarRange.start, calendarRange.end)
           wanted == Range(codes) \X Range(years)
       IN IF Len(codes) = 0
          THEN /\ holidaysCache = settledCache({}, {})
               /\ failedFetches = {}
               /\ holidaysByCountry = <<>>
               /\ lastFetchKey = NoKey
               /\ nextCycle = 1
          ELSE /\ failedFetches \in
                      {{[code |-> f[1], year |-> f[2], cycle |-> 1] : f \in F} :
                          F \in SUBSET wanted}
               /\ holidaysCache =
                      settledCache(wanted, {<<f.code, f.year>> : f \in failedFetches})
               /\ holidaysByCountry = byCountry(codes, years, holidaysCache)
               /\ lastFetchKey = fetchKey(codes, years)
               /\ nextCycle = 2
    /\ loadingHolidays = FALSE
    /\ calendarTz = defaultTz(selectedParticipants, "UTC")
    /\ selectedDate = NullDate
    /\ awakeStart = 8
    /\ awakeEnd = 22
    /\ browserOffset \in BrowserOffsets
    /\ inflight = {}
    /\ cycles = {}
    /\ effectRun = NoRun
    /\ justPublished = NoCycle
    /\ filtered = <<>>
    /\ hours = <<>>
    /\ pc = "render"
    /\ ModalClosed
    /\ NoOutput

\* the render computes filteredDates and the events
ComputeFilteredDates ==
    /\ pc = "render"
    /\ filtered' = filteredDates
    /\ events' = renderEvents
    /\ pc' = "filtered"
    /\ UNCHANGED <<selectedParticipants, currentStep, filterType, holidaysByCountry,
                   loadingHolidays, calendarTz, calendarRange, holidaysCache,
                   lastFetchKey, selectedDate, awakeStart, awakeEnd, browserOffset,
                   inflight, cycles, nextCycle, effectRun, justPublished, failedFetches,
                   hours, modalVars, yearsInRange, local>>

SpecDates == InitDates /\ [][ComputeFilteredDates]_vars

-----------------------------------------------------------------------------
(* getCommonAwakeHours, over the inputs a render of the time filter can pass *)

AwakeParticipants == {PUS, PJP, PSea, PIN}
AwakeStarts == {0, 8, 9, 22}
AwakeEnds == {8, 18, 22, 24}
AwakeDates == {Midnight(365), Midnight(366)}

InitAwake ==
    /\ selectedParticipants \in listsOf(AwakeParticipants, 2)
    /\ currentStep = 1
    /\ filterType = "workday"
    /\ calendarRange = December2024
    /\ holidaysCache = [s \in Slots |-> Undefined]
    /\ holidaysByCountry = <<>>
    /\ lastFetchKey = NoKey
    /\ loadingHolidays = FALSE
    /\ calendarTz \in Zones
    /\ \/ Len(selectedParticipants) = 0
       \/ calendarTz \in Range(timezones(selectedParticipants)) \cup {"UTC"}
    /\ selectedDate \in AwakeDates
    /\ awakeStart \in AwakeStarts
    /\ awakeEnd \in AwakeEnds
    /\ browserOffset \in BrowserOffsets
    /\ inflight = {}
    /\ cycles = {}
    /\ nextCycle = 1
    /\ effectRun = NoRun
    /\ justPublished = NoCycle
    /\ failedFetches = {}
    /\ filtered = <<>>
    /\ hours = <<>>
    /\ pc = "time filter"
    /\ ModalClosed
    /\ NoOutput

\* the time filter modal calls getCommonAwakeHours(selectedDate, calendarTz)
CallGetCommonAwakeHours ==
    /\ pc = "time filter"
    /\ hours' = getCommonAwakeHours(selectedDate, calendarTz)
    /\ pc' = "hours"
    /\ UNCHANGED <<selectedParticipants, currentStep, filterType, holidaysByCountry,
                   loadingHolidays, calendarTz, calendarRange, holidaysCache,
                   lastFetchKey, selectedDate, awakeStart, awakeEnd, browserOffset,
                   inflight, cycles, nextCycle, effectRun, justPublished, failedFetches,
                   filtered, modalVars, outVars>>

SpecAwake == InitAwake /\ [][CallGetCommonAwakeHours]_vars

-----------------------------------------------------------------------------
(* The participant registry: handleAddParticipant, handleRemoveParticipant and  *)
(* the header's Reset called in any order with any participant or id, in the   *)
(* App as constructed (calendarRange still {start: null, end: null}, so the    *)
(* fetch effect returns at its first guard)                                    *)

NoRange == [start |-> NullDate, end |-> NullDate]

\* the places that can be clicked
RegistryParticipants == {PUS, PJP, PSea, PIN}

InitRegistry ==
    /\ selectedParticipants = <<>>
    /\ currentStep = 0
    /\ filterType = "workday"
    /\ holidaysByCountry = <<>>
    /\ loadingHolidays = FALSE
    /\ calendarTz = "UTC"
    /\ calendarRange = NoRange
    /\ holidaysCache = [s \in Slots |-> Undefined]
    /\ lastFetchKey = NoKey
    /\ selectedDate = NullDate
    /\ awakeStart = 8
    /\ awakeEnd = 22
    /\ browserOffset = 0
    /\ inflight = {}
    /\ cycles = {}
    /\ nextCycle = 1
    /\ effectRun = NoRun
    /\ justPublished = NoCycle
    /\ failedFetches = {}
    /\ filtered = <<>>
    /\ hours = <<>>
    /\ pc = "registry"
    /\ ModalClosed
    /\ NoOutput

RegistryPcs == {"registry", "added", "add ignored", "removed", "remove ignored", "reset"}

\* what a registry operation leaves alone
registryFrame == <<currentStep, filterType, holidaysByCountry, loadingHolidays,
                   calendarRange, holidaysCache, lastFetchKey, selectedDate,
                   awakeStart, awakeEnd, browserOffset, inflight, cycles, nextCycle,
                   effectRun, justPublished, failedFetches, filtered, hours,
                   modalVars, outVars>>

\* handleAddParticipant(participant), then the render and the default timezone effect
CallHandleAddParticipant(participant) ==
    /\ pc \in RegistryPcs
    /\ selectedParticipants' = withParticipant(selectedParticipants, participant)
    /\ calendarTz' = defaultTz(selectedParticipants', calendarTz)
    /\ pc' = IF hasId(selectedParticipants, participant.id) THEN "add ignored" ELSE "added"
    /\ UNCHANGED registryFrame

\* handleRemoveParticipant(id), then the render and the default timezone effect
CallHandleRemoveParticipant(id) ==
    /\ pc \in RegistryPcs
    /\ selectedParticipants' = withoutParticipant(selectedParticipants, id)
    /\ calendarTz' = defaultTz(selectedParticipants', calendarTz)
    /\ pc' = IF hasId(selectedParticipants, id) THEN "removed" ELSE "remove ignored"
    /\ UNCHANGED registryFrame

\* setSelectedParticipants([])
CallReset ==
    /\ pc \in RegistryPcs
    /\ selectedParticipants' = <<>>
    /\ calendarTz' = defaultTz(selectedParticipants', calendarTz)
    /\ pc' = "reset"
    /\ UNCHANGED registryFrame

AddAny == \E p \in RegistryParticipants : CallHandleAddParticipant(p)
RemoveAny == \E p \in RegistryParticipants : CallHandleRemoveParticipant(p.id)

NextRegistry == AddAny \/ RemoveAny \/ CallReset

SpecRegistry == InitRegistry /\ [][NextRegistry]_vars

-----------------------------------------------------------------------------
(* getYearsInRange, over ranges with start <= end and any time of day *)

\* nothing fetched, nothing in flight, nothing rendered
NothingFetched ==
    /\ holidaysByCountry = <<>>
    /\ loadingHolidays = FALSE
    /\ holidaysCache = [s \in Slots |-> Undefined]
    /\ lastFetchKey = NoKey
    /\ inflight = {}
    /\ cycles = {}
    /\ nextCycle = 1
    /\ effectRun = NoRun
    /\ justPublished = NoCycle
    /\ failedFetches = {}
    /\ filtered = <<>>
    /\ hours = <<>>

\* 29, 30 and 31 December 2024, 1 and 2 January 2025
YearDays == {363, 364, 365, 366, 367}
TimesOfDay == {0, 12 * 60, 23 * 60 + 59}
YearDates == {Midnight(n) + t : n \in YearDays, t \in TimesOfDay}

InitYears ==
    /\ selectedParticipants = <<>>
    /\ currentStep = 1
    /\ filterType = "workday"
    /\ calendarTz = "UTC"
    /\ calendarRange \in {[start |-> a, end |-> b] : a, b \in YearDates}
    /\ calendarRange.start <= calendarRange.end
    /\ selectedDate = NullDate
    /\ awakeStart = 8
    /\ awakeEnd = 22
    /\ browserOffset = 0
    /\ NothingFetched
    /\ pc = "range"
    /\ ModalClosed
    /\ NoOutput

CallGetYearsInRange ==
    /\ pc = "range"
    /\ yearsInRange' = getYearsInRange(calendarRange.start, calendarRange.end)
    /\ pc' = "years"
    /\ UNCHANGED <<selectedParticipants, calendarTz, calendarRange, fetchVars, effectRun,
                   justPublished, failedFetches, uiVars, modalVars, browserOffset,
                   filtered, hours, events, local>>

SpecYears == InitYears /\ [][CallGetYearsInRange]_vars

-----------------------------------------------------------------------------
(* The result page: the chosen hour of the chosen date in the display timezone, *)
(* shown in each participant's timezone.  Here America/New_York follows its     *)
(* 2024 daylight-saving rule; the other zones have no such rule.                *)

\* the instants of 2024 at which America/New_York changes its offset:
\* 10 March 07:00 UTC and 3 November 06:00 UTC
SpringForward == Midnight(69) + 7 * 60
FallBack == Midnight(307) + 6 * 60

dstOffset(zone) ==
    IF zone = "America/New_York" THEN utcOffset(zone) + 60 ELSE utcOffset(zone)

\* the zone's UTC offset at an instant
offsetAt(zone, instant) ==
    IF instant >= SpringForward /\ instant < FallBack THEN dstOffset(zone)
    ELSE utcOffset(zone)

\* moment.tz(zone) of an instant: the wall-clock reading in the zone
wallClock(zone, instant) == instant + offsetAt(zone, instant)

\* the instants at which the zone's wall clock shows the reading
instantsOf(zone, reading) ==
    {i \in {reading - utcOffset(zone), reading - dstOffset(zone)} :
        wallClock(zone, i) = reading}

\* the chosen hour read as a UTC hour
hourAsUTC(zone, day, h) == {Midnight(day) + h * 60}

\* moment.tz('YYYY-MM-DD', zone).hour(h).minute(0).second(0): the instant of h:00
\* of the day in the zone; an hour the zone skips on that day is resolved to
\* the hour before or the hour after it
hourOfDayIn(zone, day, h) ==
    LET reading == Midnight(day) + h * 60
    IN IF instantsOf(zone, reading) # {} THEN instantsOf(zone, reading)
       ELSE {reading - utcOffset(zone), reading - dstOffset(zone)}

\* 10 March 2024 and 31 December 2024
ResultDates == {Midnight(69), Midnight(365)}

InitResult ==
    /\ selectedParticipants \in listsOf(AwakeParticipants, 2)
    /\ currentStep = 1
    /\ filterType = "workday"
    /\ calendarTz \in Zones
    /\ \/ Len(selectedParticipants) = 0
       \/ calendarTz \in Range(timezones(selectedParticipants)) \cup {"UTC"}
    /\ calendarRange = December2024
    /\ selectedDate \in ResultDates
    /\ awakeStart = 8
    /\ awakeEnd = 22
    /\ browserOffset \in BrowserOffsets
    /\ NothingFetched
    /\ pc = "confirmed"
    /\ showTimeFilter = FALSE
    /\ selectedHour \in 0..23
    /\ showResult = TRUE
    /\ NoOutput

\* the result page renders the local time of every participant
ShowResultPage ==
    /\ pc = "confirmed"
    /\ showResult /\ selectedDate # NullDate /\ selectedHour # NullHour
    /\ \E refMoment \in hourOfDayIn(calendarTz, formatLocalDate(selectedDate), selectedHour) :
           local' = [k \in DOMAIN selectedParticipants |->
                        LET zone == tzName(selectedParticipants[k].timezone)
                        IN [zone |-> zone, time |-> wallClock(zone, refMoment)]]
    /\ pc' = "result"
    /\ UNCHANGED <<selectedParticipants, calendarTz, calendarRange, fetchVars, effectRun,
                   justPublished, failedFetches, uiVars, modalVars, browserOffset,
                   filtered, hours, yearsInRange, events>>

SpecResult == InitResult /\ [][ShowResultPage]_vars

\* the reading h:00 of the chosen date
chosenReading == Midnight(formatLocalDate(selectedDate)) + selectedHour * 60

\* the readings of the display timezone at the instants of a participant's local time
backInDisplay(k) ==
    {wallClock(calendarTz, i) : i \in instantsOf(local[k].zone, local[k].time)}

-----------------------------------------------------------------------------
(* Claims about the participant registry (SpecRegistry) *)

\* C11: after any sequence of add, remove and reset, selectedParticipants holds
\* at most one participant per id.
C11_OneParticipantPerId ==
    \A i, j \in DOMAIN selectedParticipants :
        selectedParticipants[i].id = selectedParticipants[j].id => i = j

\* a place already in a registry of several participants was clicked again
C11_Witness ==
    /\ pc = "add ignored"
    /\ Len(selectedParticipants) >= 2

\* C12: adding a participant whose id is present, and removing an id that is
\* absent, leave the registry as it was.
C12_AddRemoveIdempotent ==
    [][ /\ \A p \in RegistryParticipants :
               (hasId(selectedParticipants, p.id) /\ CallHandleAddParticipant(p)) =>
                   selectedParticipants' = selectedParticipants
        /\ \A p \in RegistryParticipants :
               (~hasId(selectedParticipants, p.id) /\ CallHandleRemoveParticipant(p.id)) =>
                   selectedParticipants' = selectedParticipants
        /\ pc' \in {"add ignored", "remove ignored"} =>
               selectedParticipants' = selectedParticipants
      ]_vars

\* an id was removed a second time from a registry that still holds somebody
C12_Witness ==
    /\ pc = "remove ignored"
    /\ selectedParticipants # <<>>

-----------------------------------------------------------------------------
(* Claims about the filter predicates (SpecDates) *)

renderCodes == countryCodes(selectedParticipants)
renderDates == Range(allDates(calendarRange))

\* every country of the render has a record of type Public on the calendar day of d
groupPublicHoliday(d) ==
    \A code \in Range(renderCodes) :
        \E i \in DOMAIN holidaysOf(code) :
            /\ holidaysOf(code)[i].date = formatLocalDate(d)
            /\ holidaysOf(code)[i].type = "Public"

\* C2: with no country code, isHoliday is false for every date of the range and
\* the holiday filter selects no date.
C2_EmptySetNeverHoliday ==
    (pc = "filtered" /\ Len(renderCodes) = 0) =>
        /\ \A d \in renderDates : ~isHoliday(d)
        /\ filterType = "holiday" => filtered = <<>>

\* C3: with at least one country code, isHoliday holds for a date iff every
\* country has a record of type Public on that calendar date, and the holiday
\* filter selects exactly those dates.
C3_HolidayIffAllPublic ==
    (pc = "filtered" /\ Len(renderCodes) > 0) =>
        /\ \A d \in renderDates : isHoliday(d) <=> groupPublicHoliday(d)
        /\ filterType = "holiday" =>
               Range(filtered) = {d \in renderDates : groupPublicHoliday(d)}

anyCountryHoliday(d) ==
    \E code \in Range(renderCodes) :
        \E i \in DOMAIN holidaysOf(code) : holidaysOf(code)[i].date = toISODate(d)

dayOfWeekIn(d, zone) ==
    (((d - browserOffset + utcOffset(zone)) \div MinutesPerDay) + 1) % 7

\* C15: the weekend filter selects a date of the range iff the date's day of the
\* week in the display timezone is Saturday or Sunday, whatever the holidays.
C15_WeekendInDisplayTimezone ==
    (pc = "filtered" /\ filterType = "weekend") =>
        Range(filtered) = {d \in renderDates : dayOfWeekIn(d, calendarTz) \in {0, 6}}

\* C16: for every country of the render and every holiday record of it whose
\* date is a date of the visible range, the last one included, the events hold
\* one spanning that day from midnight to midnight in the country's timezone,
\* tagged countryHoliday iff the record's type is Public.
C16_EventForEveryHolidayInRange ==
    pc = "filtered" =>
        \A code \in Range(renderCodes) :
            \A i \in DOMAIN holidaysOf(code) :
                LET h == holidaysOf(code)[i]
                    start == toDate(localStart(h.date, getTimezoneByCountryCode(code)))
                IN (\E d \in renderDates : formatLocalDate(d) = h.date) =>
                       \E e \in events :
                           /\ e.code = code
                           /\ e.date = h.date
                           /\ e.start = start
                           /\ e.end = start + MinutesPerDay
                           /\ e.type = "countryHoliday" <=> h.type = "Public"
                           /\ e.type \in {"countryHoliday", "otherHoliday"}

-----------------------------------------------------------------------------
(* Claims about getCommonAwakeHours (SpecAwake) *)

\* C1: the result holds only hours 0..23, and is empty when there is no participant.
C1_HoursInDayAndEmptyForNobody ==
    pc = "hours" =>
        /\ \A i \in DOMAIN hours : hours[i] \in 0..23
        /\ Len(selectedParticipants) = 0 => hours = <<>>

\* the hour of day in zone at the instant that reads h:00 in the display zone
hourThere(h, display, zone) ==
    ((h * 60 - utcOffset(display) + utcOffset(zone)) % MinutesPerDay) \div 60

-----------------------------------------------------------------------------
(* Claims about the holiday fetch effect and the cache (Spec) *)

slotOf(t) == <<t.code, t.year>>

\* C6: a run of the fetch effect that computes the key already in lastFetchKey
\* issues no fetch and changes neither the cache, lastFetchKey, loadingHolidays
\* nor holidaysByCountry.
C6_SameKeyNoFetch ==
    [][effectRun' = "same key" =>
           UNCHANGED <<holidaysCache, lastFetchKey, loadingHolidays,
                       holidaysByCountry, inflight, cycles>>]_vars

\* the effect ran again with the key of a cycle whose fetches are still in flight
C6_Witness ==
    /\ effectRun = "same key"
    /\ inflight # {}
    /\ loadingHolidays

\* C7: a fetch is issued only for a pair with no cached value and no fetch in
\* flight, and a slot that holds a value keeps it.
C7_SlotWrittenOnce ==
    [][ /\ \A t \in inflight' \ inflight :
               /\ holidaysCache[slotOf(t)] = Undefined
               /\ ~\E u \in inflight : slotOf(u) = slotOf(t)
        /\ \A s \in Slots :
               holidaysCache[s] # Undefined => holidaysCache'[s] = holidaysCache[s]
      ]_vars

\* C8: once every fetch has settled, holidaysByCountry is the merge for the
\* country codes and years of the last issued key.
C8_SettledShowsLastKey ==
    (inflight = {} /\ lastFetchKey # NoKey) =>
        holidaysByCountry = byCountry(lastFetchKey[1], lastFetchKey[2], holidaysCache)

\* the fetches in flight that the most recent cycle issued
ofLatestCycle ==
    {t \in inflight :
        /\ t.cycle = nextCycle - 1
        /\ \E c \in cycles : c.id = t.cycle /\ fetchKey(c.codes, c.years) = lastFetchKey}

\* C19: loadingHolidays is not false while a fetch of the most recent cycle is
\* in flight, and it is false once every issued fetch has settled.
C19_LoadingUntilSettled ==
    /\ ofLatestCycle # {} => loadingHolidays
    /\ inflight = {} => ~loadingHolidays

RECURSIVE flatten(_)
flatten(lists) == IF lists = <<>> THEN <<>> ELSE Head(lists) \o flatten(Tail(lists))

\* C9: when a cycle publishes holidaysByCountry none of its fetches is in
\* flight, the cache holds a value for every (country, year) pair of the cycle,
\* and each country's list is the cached lists of the cycle's years, in order.
C9_PublishAfterJoin ==
    justPublished.published =>
        /\ ~\E t \in inflight : t.cycle = justPublished.cycle
        /\ \A c \in Range(justPublished.codes), y \in Range(justPublished.years) :
               holidaysCache[<<c, y>>] # Undefined
        /\ DOMAIN holidaysByCountry = Range(justPublished.codes)
        /\ \A c \in Range(justPublished.codes) :
               holidaysByCountry[c] =
                   flatten([i \in DOMAIN justPublished.years |->
                               holidaysCache[<<c, justPublished.years[i]>>][1]])

\* a cycle over two years that issued fetches has published both years' records
C9_Witness ==
    /\ justPublished.published
    /\ justPublished.cycle > 0
    /\ Len(justPublished.years) = 2
    /\ \E c \in DOMAIN holidaysByCountry : Len(holidaysByCountry[c]) > 2

\* C10: a fetch that fails leaves the empty list in its slot; if it was the last
\* pending fetch of its cycle the cycle publishes holidaysByCountry; and no
\* fetch is issued afterwards for a pair whose fetch has failed.
C10_FailureIsEmptyList ==
    [][ /\ \A t \in failedFetches' \ failedFetches :
               /\ holidaysCache'[slotOf(t)] = Some(<<>>)
               /\ (~\E u \in inflight' : u.cycle = t.cycle) =>
                      /\ justPublished'.published
                      /\ justPublished'.cycle = t.cycle
                      /\ t.code \in DOMAIN holidaysByCountry'
                      /\ ~loadingHolidays'
        /\ \A t \in inflight' \ inflight :
               ~\E f \in failedFetches : slotOf(f) = slotOf(t)
      ]_vars

\* a failed fetch was the last of its cycle, which published the empty list
C10_Witness ==
    /\ justPublished.published
    /\ \E f \in failedFetches :
           /\ f.cycle = justPublished.cycle
           /\ holidaysCache[slotOf(f)] = Some(<<>>)
           /\ holidaysByCountry[f.code] = <<>>

====
